---- MODULE Spec2Model ----
(***************************************************************************)
(* The chain orchestration executor of MCPHub (the OrchestrationExecutor   *)
(* React component).  The observable state is the component's four useState *)
(* cells; the run loop of executeChain is one asynchronous process whose    *)
(* position is pc and whose locals are i, previousOutput, currentSteps and  *)
(* updatedSteps.  One action is one synchronous block of the code, from one *)
(* await to the next.                                                       *)
(***************************************************************************)
EXTENDS Integers, Sequences, FiniteSets

VARIABLES
  isExecuting,        \* useState(false)
  executionSteps,     \* useState<ExecutionStep[]>([])
  currentStepIndex,   \* useState(-1)
  executionResults,   \* useState<any>(null)
  chain,              \* orchestrationServers as captured by the running executeChain closure
  pc,                 \* position of the executeChain process
  i,                  \* loop variable of executeChain
  previousOutput,     \* local of executeChain
  currentSteps,       \* local of executeChain: the array returned by initializeExecution
  updatedSteps,       \* local of executeStep: the array with step i marked running
  attempts,           \* log of the executeStep calls of the current run, in call order
  now,                \* Date.now(), a logical clock
  starts,             \* number of executeChain calls made so far
  warnings,           \* number of console.warn calls made so far
  callbacks           \* arguments of the onExecutionComplete calls of the current run

vars == <<isExecuting, executionSteps, currentStepIndex, executionResults, chain, pc, i,
          previousOutput, currentSteps, updatedSteps, attempts, now, starts, warnings, callbacks>>

-----------------------------------------------------------------------------
(* Bounds of the model *)

MaxChain == 3     \* longest chain handed to the executor
MaxRuns == 2      \* executeChain calls explored
MaxTime == 2      \* the clock stops ticking here

-----------------------------------------------------------------------------
(* Values *)

\* JavaScript null: the initial previousOutput and the initial executionResults
Null == "null"

\* An optional string-valued field of ExecutionStep that is not set
Undefined == "undefined"

\* An optional number-valued field of ExecutionStep (duration, startTime) that is not set
NoNumber == -1

\* The servers prop: the catalog the executor looks entries up in
servers ==
  { [id |-> "s1", name |-> "slack-connector"],
    [id |-> "s2", name |-> "custom-tool"] }

\* Entry identifiers a chain may hold; "unknown-id" is not in the catalog
ServerIds == {"s1", "s2", "unknown-id"}

\* servers.find(s => s.id === serverId): the set holding the entry, or the empty set
FindServer(serverId) == { s \in servers : s.id = serverId }

\* The keys of the mockServerExecutions table that name a catalog entry
MockNames == {"slack-connector"}

\* result.data of the mock registered under a name
MockData(name) ==
  CASE name = "slack-connector" -> "slack-data"

\* result.data synthesised by the generic fallback (carries server_name and status)
GenericData(name) == "generic-data"

\* The chains a caller may hand over, the empty one included
RECURSIVE SeqsUpTo(_)
SeqsUpTo(n) ==
  IF n = 0 THEN { <<>> }
  ELSE LET shorter == SeqsUpTo(n - 1)
       IN  shorter \cup { Append(c, id) : c \in { s \in shorter : Len(s) = n - 1 }, id \in ServerIds }

Chains == SeqsUpTo(MaxChain)

-----------------------------------------------------------------------------
(* initializeExecution *)

\* NewStep with an id that does not mention the entry identifier
NewStepConstantId(serverId) ==
  LET found == FindServer(serverId)
  IN  [ id |-> <<"step-", "">>,
        serverId |-> serverId,
        serverName |-> IF found = {} THEN "Unknown Server" ELSE (CHOOSE s \in found : TRUE).name,
        status |-> "pending",
        output |-> Undefined,
        error |-> Undefined,
        duration |-> NoNumber,
        startTime |-> NoNumber ]

\* One pending step for an entry identifier
NewStep(serverId) ==
  LET found == FindServer(serverId)
  IN  [ id |-> <<"step-", serverId>>,
        serverId |-> serverId,
        serverName |-> IF found = {} THEN "Unknown Server" ELSE (CHOOSE s \in found : TRUE).name,
        status |-> "pending",
        output |-> Undefined,
        error |-> Undefined,
        duration |-> NoNumber,
        startTime |-> NoNumber ]

\* orchestrationServers.map(...)
InitialSteps(c) == [ k \in 1..Len(c) |-> NewStep(c[k]) ]

\* executionResults === null
NoResults ==
  [ status |-> Null, totalSteps |-> NoNumber, completedSteps |-> NoNumber,
    totalDuration |-> NoNumber ]

-----------------------------------------------------------------------------
(* executeStep: the arrays it hands to setExecutionSteps.  Indices are the  *)
(* code's index plus one.                                                   *)

\* MarkRunning with the comparison i >= stepIndex: every later step is marked too
MarkRunningFrom(steps, stepIndex, time) ==
  [ k \in DOMAIN steps |->
      IF k >= stepIndex + 1
      THEN [ steps[k] EXCEPT !.status = "running", !.startTime = time ]
      ELSE steps[k] ]

\* MarkRunning with filter in place of map: only the running step is kept
MarkRunningOnly(steps, stepIndex, time) ==
  << [ steps[stepIndex + 1] EXCEPT !.status = "running", !.startTime = time ] >>

\* steps.map((s, i) => i === stepIndex ? {...s, status: 'running', startTime} : s)
MarkRunning(steps, stepIndex, time) ==
  [ k \in DOMAIN steps |->
      IF k = stepIndex + 1
      THEN [ steps[k] EXCEPT !.status = "running", !.startTime = time ]
      ELSE steps[k] ]

\* Date.now() - (step.startTime || Date.now()), step being the element of the
\* array that was passed in
Duration(step, time) ==
  time - (IF step.startTime # NoNumber /\ step.startTime # 0 THEN step.startTime ELSE time)

\* MarkCompleted without the status: the output is stored on a running step
MarkCompletedKeepsStatus(steps, stepIndex, data, duration) ==
  [ k \in DOMAIN steps |->
      IF k = stepIndex + 1
      THEN [ steps[k] EXCEPT !.output = data, !.duration = duration ]
      ELSE steps[k] ]

\* updatedSteps.map((s, i) => i === stepIndex ? {...s, status: 'completed', output, duration} : s)
MarkCompleted(steps, stepIndex, data, duration) ==
  [ k \in DOMAIN steps |->
      IF k = stepIndex + 1
      THEN [ steps[k] EXCEPT !.status = "completed", !.output = data, !.duration = duration ]
      ELSE steps[k] ]

\* updatedSteps.map((s, i) => i === stepIndex ? {...s, status: 'failed', error, duration} : s)
MarkFailed(steps, stepIndex, message, duration) ==
  [ k \in DOMAIN steps |->
      IF k = stepIndex + 1
      THEN [ steps[k] EXCEPT !.status = "failed", !.error = message, !.duration = duration ]
      ELSE steps[k] ]

-----------------------------------------------------------------------------
(* executeChain: the pieces of the loop and of the final classification *)

\* ActionInput with the optional previousOutput argument left out of the call
ActionInputOmitted(previous) == Undefined

\* executeStep(currentSteps[i], i, currentSteps, previousOutput) and, in it,
\* executeFn(previousOutput): the input the registered action is invoked with
ActionInput(previous) == previous

\* NextIndexAfterFailure with break in place of continue: the loop is left
NextIndexAfterBreak(k, n) == n

\* NextIndexAfterFailure that stays at the failed index: the step is retried
NextIndexAfterRetry(k, n) == k

\* catch (stepError) { ...; continue; }: the index the loop goes on with
NextIndexAfterFailure(k, n) == k + 1

\* currentSteps.filter(s => s.status === 'completed').length
RECURSIVE CountCompleted(_)
CountCompleted(steps) ==
  IF steps = <<>> THEN 0
  ELSE (IF Head(steps).status = "completed" THEN 1 ELSE 0) + CountCompleted(Tail(steps))

\* SumDuration without the "|| 0": a step with no duration is added as it is
RECURSIVE SumDurationNoDefault(_)
SumDurationNoDefault(steps) ==
  IF steps = <<>> THEN 0
  ELSE Head(steps).duration + SumDurationNoDefault(Tail(steps))

\* currentSteps.reduce((sum, step) => sum + (step.duration || 0), 0)
RECURSIVE SumDuration(_)
SumDuration(steps) ==
  IF steps = <<>> THEN 0
  ELSE (IF Head(steps).duration = NoNumber THEN 0 ELSE Head(steps).duration)
       + SumDuration(Tail(steps))

\* RunStatus that takes any completed step for success
RunStatusAnyCompleted(completedSteps, totalSteps) ==
  IF completedSteps >= 1 THEN "success" ELSE "partial"

\* RunStatus that reports a run without a completed step as an error
RunStatusErrorWhenNone(completedSteps, totalSteps) ==
  IF completedSteps = totalSteps THEN "success"
  ELSE IF completedSteps = 0 THEN "error" ELSE "partial"

\* completedSteps === orchestrationServers.length ? 'success' : 'partial'
RunStatus(completedSteps, totalSteps) ==
  IF completedSteps = totalSteps THEN "success" ELSE "partial"

\* The object handed to setExecutionResults when the loop is over
FinalResults(steps, c) ==
  [ status |-> RunStatus(CountCompleted(steps), Len(c)),
    totalSteps |-> Len(c),
    completedSteps |-> CountCompleted(steps),
    totalDuration |-> SumDuration(steps) ]

-----------------------------------------------------------------------------
Init ==
  /\ isExecuting = FALSE
  /\ executionSteps = <<>>
  /\ currentStepIndex = -1
  /\ executionResults = NoResults
  /\ chain = <<>>
  /\ pc = "idle"
  /\ i = 0
  /\ previousOutput = Null
  /\ currentSteps = <<>>
  /\ updatedSteps = <<>>
  /\ attempts = <<>>
  /\ now = 0
  /\ starts = 0
  /\ warnings = 0
  /\ callbacks = <<>>

-----------------------------------------------------------------------------
(* The log of executeStep calls.  An entry is written when executeStep is   *)
(* called: which index, which action it invoked (a registered mock, the     *)
(* generic fallback, or none when the entry was not found), and the input   *)
(* handed to the action.  Its outcome is filled in when the call settles.   *)

Attempt(index, action, input, outcome, message) ==
  [ index |-> index, action |-> action, input |-> input, outcome |-> outcome,
    message |-> message ]

\* The last entry of the log with its outcome filled in
Settle(log, outcome, message) ==
  [ log EXCEPT ![Len(log)] = [ @ EXCEPT !.outcome = outcome, !.message = message ] ]

\* The catalog entry of the step the loop is at
CurrentServer == CHOOSE s \in servers : s.id = currentSteps[i + 1].serverId

-----------------------------------------------------------------------------
(* Actions *)

\* <button onClick={executeChain} disabled={isExecuting}>: a click reaches
\* executeChain only while the button is enabled
ExecuteAlwaysEnabled == TRUE

ExecuteEnabled == ~isExecuting

\* The Reset button without its disabled attribute
ResetAlwaysEnabled == TRUE

\* <button onClick={resetExecution} disabled={isExecuting}>
ResetEnabled == ~isExecuting

\* StartEmpty with the length check after setIsExecuting(true): the flag is
\* raised and never lowered
StartEmptyRaisesFlag ==
  /\ ExecuteEnabled
  /\ starts < MaxRuns
  /\ starts' = starts + 1
  /\ warnings' = warnings + 1
  /\ isExecuting' = TRUE
  /\ UNCHANGED <<executionSteps, currentStepIndex, executionResults, chain, pc,
                 i, previousOutput, currentSteps, updatedSteps, attempts, now,
                 callbacks>>

\* StartEmpty without the console.warn: the request is dropped silently
StartEmptySilent ==
  /\ ExecuteEnabled
  /\ starts < MaxRuns
  /\ starts' = starts + 1
  /\ UNCHANGED <<isExecuting, executionSteps, currentStepIndex, executionResults, chain, pc,
                 i, previousOutput, currentSteps, updatedSteps, attempts, now, warnings, callbacks>>

\* executeChain on an empty chain: console.warn and return
StartEmpty ==
  /\ ExecuteEnabled
  /\ starts < MaxRuns
  /\ starts' = starts + 1
  /\ warnings' = warnings + 1
  /\ UNCHANGED <<isExecuting, executionSteps, currentStepIndex, executionResults, chain, pc,
                 i, previousOutput, currentSteps, updatedSteps, attempts, now,
                 callbacks>>

\* Start with an initializeExecution that leaves executionResults alone
StartKeepsResults(c) ==
  /\ ExecuteEnabled
  /\ starts < MaxRuns
  /\ c # <<>>
  /\ starts' = starts + 1
  /\ chain' = c
  /\ isExecuting' = TRUE
  /\ executionSteps' = InitialSteps(c)
  /\ currentStepIndex' = -1
  /\ UNCHANGED executionResults
  /\ currentSteps' = InitialSteps(c)
  /\ updatedSteps' = <<>>
  /\ previousOutput' = Null
  /\ i' = 0
  /\ attempts' = <<>>
  /\ callbacks' = <<>>
  /\ pc' = "wait"
  /\ UNCHANGED <<now, warnings>>

\* Start with an initializeExecution that appends to the steps on display
StartAppendsSteps(c) ==
  /\ ExecuteEnabled
  /\ starts < MaxRuns
  /\ c # <<>>
  /\ starts' = starts + 1
  /\ chain' = c
  /\ isExecuting' = TRUE
  /\ executionSteps' = executionSteps \o InitialSteps(c)
  /\ currentStepIndex' = -1
  /\ executionResults' = NoResults
  /\ currentSteps' = InitialSteps(c)
  /\ updatedSteps' = <<>>
  /\ previousOutput' = Null
  /\ i' = 0
  /\ attempts' = <<>>
  /\ callbacks' = <<>>
  /\ pc' = "wait"
  /\ UNCHANGED <<now, warnings>>

\* executeChain on a non-empty chain, up to its first await: setIsExecuting(true)
\* and initializeExecution().  The Execute button is disabled while isExecuting.
Start(c) ==
  /\ ExecuteEnabled
  /\ starts < MaxRuns
  /\ c # <<>>
  /\ starts' = starts + 1
  /\ chain' = c
  /\ isExecuting' = TRUE
  /\ executionSteps' = InitialSteps(c)
  /\ currentStepIndex' = -1
  /\ executionResults' = NoResults
  /\ currentSteps' = InitialSteps(c)
  /\ updatedSteps' = <<>>
  /\ previousOutput' = Null
  /\ i' = 0
  /\ attempts' = <<>>
  /\ callbacks' = <<>>
  /\ pc' = "wait"
  /\ UNCHANGED <<now, warnings>>

\* The 100 ms wait is over: previousOutput = null, currentSteps = [...steps], i = 0
EnterLoop ==
  /\ pc = "wait"
  /\ pc' = "loop"
  /\ previousOutput' = Null
  /\ i' = 0
  /\ UNCHANGED <<isExecuting, executionSteps, currentStepIndex, executionResults, chain,
                 currentSteps, updatedSteps, attempts, now, starts, warnings, callbacks>>

\* A loop iteration whose entry is not in the catalog: executeStep throws before
\* it touches the steps, the loop's catch logs the error and continues
StepServerNotFound ==
  /\ pc = "loop"
  /\ i < Len(chain)
  /\ FindServer(currentSteps[i + 1].serverId) = {}
  /\ currentStepIndex' = i
  /\ attempts' = Append(attempts, Attempt(i, "none", Undefined, "notfound", "Server not found"))
  /\ i' = NextIndexAfterFailure(i, Len(chain))
  /\ UNCHANGED <<isExecuting, executionSteps, executionResults, chain, pc, previousOutput,
                 currentSteps, updatedSteps, now, starts, warnings, callbacks>>

\* A loop iteration whose entry is in the catalog, up to the await in executeStep:
\* the step is published as running and its action is invoked
StepStarts ==
  /\ pc = "loop"
  /\ i < Len(chain)
  /\ FindServer(currentSteps[i + 1].serverId) # {}
  /\ currentStepIndex' = i
  /\ updatedSteps' = MarkRunning(currentSteps, i, now)
  /\ executionSteps' = MarkRunning(currentSteps, i, now)
  /\ attempts' = Append(attempts,
                   IF CurrentServer.name \in MockNames
                   THEN Attempt(i, "mock", ActionInput(previousOutput), "awaiting", Undefined)
                   ELSE Attempt(i, "generic", Undefined, "awaiting", Undefined))
  /\ pc' = "await"
  /\ UNCHANGED <<isExecuting, executionResults, chain, i, previousOutput, currentSteps, now,
                 starts, warnings, callbacks>>

\* The awaited action resolved: the step is published as completed and its data
\* becomes previousOutput; the loop goes into its 500 ms delay
ActionReturns ==
  /\ pc = "await"
  /\ LET data == IF CurrentServer.name \in MockNames
                 THEN MockData(CurrentServer.name)
                 ELSE GenericData(CurrentServer.name)
     IN  /\ executionSteps' = MarkCompleted(updatedSteps, i, data,
                                            Duration(currentSteps[i + 1], now))
         /\ previousOutput' = data
  /\ attempts' = Settle(attempts, "returned", Undefined)
  /\ pc' = "delay"
  /\ UNCHANGED <<isExecuting, currentStepIndex, executionResults, chain, i, currentSteps,
                 updatedSteps, now, starts, warnings, callbacks>>

\* The awaited action rejected (only a registered action can: the generic
\* fallback is a timer and an object literal): the step is published as failed,
\* executeStep rethrows, the loop's catch logs the error and continues
ActionThrows ==
  /\ pc = "await"
  /\ CurrentServer.name \in MockNames
  /\ executionSteps' = MarkFailed(updatedSteps, i, "action failed",
                                  Duration(currentSteps[i + 1], now))
  /\ attempts' = Settle(attempts, "threw", "action failed")
  /\ i' = NextIndexAfterFailure(i, Len(chain))
  /\ pc' = "loop"
  /\ UNCHANGED <<isExecuting, currentStepIndex, executionResults, chain, previousOutput,
                 currentSteps, updatedSteps, now, starts, warnings, callbacks>>

\* The 500 ms delay after a successful step is over: i++
StepDelay ==
  /\ pc = "delay"
  /\ i' = i + 1
  /\ pc' = "loop"
  /\ UNCHANGED <<isExecuting, executionSteps, currentStepIndex, executionResults, chain,
                 previousOutput, currentSteps, updatedSteps, attempts, now, starts, warnings, callbacks>>

\* Finish without setCurrentStepIndex(-1) in the finally block
FinishKeepsIndex ==
  /\ pc = "loop"
  /\ ~(i < Len(chain))
  /\ executionResults' = FinalResults(executionSteps, chain)
  /\ callbacks' = Append(callbacks, executionSteps)
  /\ isExecuting' = FALSE
  /\ pc' = "idle"
  /\ UNCHANGED <<executionSteps, currentStepIndex, chain, i, previousOutput, currentSteps,
                 updatedSteps, attempts, now, starts, warnings>>

\* Finish without setIsExecuting(false)
FinishLeavesFlag ==
  /\ pc = "loop"
  /\ ~(i < Len(chain))
  /\ executionResults' = FinalResults(executionSteps, chain)
  /\ callbacks' = Append(callbacks, executionSteps)
  /\ currentStepIndex' = -1
  /\ pc' = "idle"
  /\ UNCHANGED <<isExecuting, executionSteps, chain, i, previousOutput, currentSteps, updatedSteps,
                 attempts, now, starts, warnings>>

\* Finish that hands executeChain's local currentSteps to onExecutionComplete
FinishStaleCallback ==
  /\ pc = "loop"
  /\ ~(i < Len(chain))
  /\ executionResults' = FinalResults(executionSteps, chain)
  /\ callbacks' = Append(callbacks, currentSteps)
  /\ isExecuting' = FALSE
  /\ currentStepIndex' = -1
  /\ pc' = "idle"
  /\ UNCHANGED <<executionSteps, chain, i, previousOutput, currentSteps, updatedSteps,
                 attempts, now, starts, warnings>>

\* The loop is over: the results are computed from the steps as published and
\* onExecutionComplete is called with them, then the finally block lowers
\* isExecuting and clears currentStepIndex
Finish ==
  /\ pc = "loop"
  /\ ~(i < Len(chain))
  /\ executionResults' = FinalResults(executionSteps, chain)
  /\ callbacks' = Append(callbacks, executionSteps)
  /\ isExecuting' = FALSE
  /\ currentStepIndex' = -1
  /\ pc' = "idle"
  /\ UNCHANGED <<executionSteps, chain, i, previousOutput, currentSteps, updatedSteps,
                 attempts, now, starts, warnings>>

\* Reset without setExecutionResults(null): the outcome stays on display
ResetKeepsResults ==
  /\ ResetEnabled
  /\ executionSteps' = <<>>
  /\ currentStepIndex' = -1
  /\ isExecuting' = FALSE
  /\ UNCHANGED <<executionResults, chain, pc, i, previousOutput, currentSteps, updatedSteps,
                 attempts, now, starts, warnings, callbacks>>

\* Reset with setCurrentStepIndex(0) in place of -1
ResetIndexZero ==
  /\ ResetEnabled
  /\ executionSteps' = <<>>
  /\ currentStepIndex' = 0
  /\ executionResults' = NoResults
  /\ isExecuting' = FALSE
  /\ UNCHANGED <<chain, pc, i, previousOutput, currentSteps, updatedSteps, attempts, now,
                 starts, warnings, callbacks>>

\* resetExecution; the Reset button is disabled while isExecuting
Reset ==
  /\ ResetEnabled
  /\ executionSteps' = <<>>
  /\ currentStepIndex' = -1
  /\ executionResults' = NoResults
  /\ isExecuting' = FALSE
  /\ UNCHANGED <<chain, pc, i, previousOutput, currentSteps, updatedSteps, attempts, now,
                 starts, warnings, callbacks>>

\* Time passes
Tick ==
  /\ now < MaxTime
  /\ now' = now + 1
  /\ UNCHANGED <<isExecuting, executionSteps, currentStepIndex, executionResults, chain, pc,
                 i, previousOutput, currentSteps, updatedSteps, attempts, starts, warnings, callbacks>>

Next ==
  \/ StartEmpty
  \/ \E c \in Chains : Start(c)
  \/ EnterLoop
  \/ StepServerNotFound
  \/ StepStarts
  \/ ActionReturns
  \/ ActionThrows
  \/ StepDelay
  \/ Finish
  \/ Reset
  \/ Tick

Spec == Init /\ [][Next]_vars

\* The run loop is never starved: a timer that was set fires, the continuation
\* of a settled promise runs, and an invoked action resolves or rejects
FairSpec ==
  /\ Spec
  /\ WF_vars(EnterLoop)
  /\ WF_vars(StepServerNotFound)
  /\ WF_vars(StepStarts)
  /\ WF_vars(ActionReturns \/ ActionThrows)
  /\ WF_vars(StepDelay)
  /\ WF_vars(Finish)

-----------------------------------------------------------------------------
(* Vocabulary of the properties *)

Terminal == {"completed", "failed"}

\* A run has finished and its outcome is still on display
RunFinished == pc = "idle" /\ executionResults.status # Null

\* The number of published steps whose status is completed
CompletedCount == Cardinality({ k \in DOMAIN executionSteps : executionSteps[k].status = "completed" })

\* The outcomes of executeStep calls that count as a failed step
FailedOutcomes == {"notfound", "threw"}

\* Every entry of the chain is in the catalog
AllResolve == \A k \in DOMAIN chain : FindServer(chain[k]) # {}

\* Every action invoked in the run returned
AllReturned ==
  /\ Len(attempts) = Len(chain)
  /\ \A j \in DOMAIN attempts : attempts[j].outcome = "returned"

\* The status changes the step state machine allows
LegalMove(from, to) ==
  \/ from = to
  \/ from = "pending" /\ to \in {"running", "failed"}
  \/ from = "running" /\ to \in Terminal

-----------------------------------------------------------------------------
(* Properties *)

\* C1: when every entry of a non-empty chain of length n resolves and every
\* action succeeds, the finished run publishes success with completedSteps = n.
C1_AllSucceedIsSuccess ==
  (RunFinished /\ AllResolve /\ AllReturned)
    => /\ executionResults.status = "success"
       /\ executionResults.completedSteps = Len(chain)

\* C2: once a run has finished, the published step list has n steps and every
\* one of them is completed or failed.
C2_AllStepsTerminal ==
  RunFinished
    => /\ Len(executionSteps) = Len(chain)
       /\ \A k \in DOMAIN executionSteps : executionSteps[k].status \in Terminal

\* C3: while a run is in flight a published step only moves pending -> running
\* -> completed or failed, and a step that is completed or failed keeps its
\* whole record (status, output, error) until the run ends.
C3_TerminalIsFinal ==
  [][ isExecuting =>
        \A k \in DOMAIN executionSteps :
          /\ k \in DOMAIN executionSteps'
          /\ LegalMove(executionSteps[k].status, executionSteps'[k].status)
          /\ executionSteps[k].status \in Terminal => executionSteps'[k] = executionSteps[k]
    ]_vars

\* C4: a step at index i > 0 enters running only from a state in which step
\* i-1 is completed or failed.
C4_RunsAfterPredecessorTerminal ==
  [][ isExecuting =>
        \A k \in DOMAIN executionSteps :
          ( /\ k > 1
            /\ k \in DOMAIN executionSteps'
            /\ executionSteps[k].status # "running"
            /\ executionSteps'[k].status = "running" )
          => executionSteps[k - 1].status \in Terminal
    ]_vars

\* C5: in every reachable state at most one published step is running.
C5_AtMostOneRunning ==
  Cardinality({ k \in DOMAIN executionSteps : executionSteps[k].status = "running" }) <= 1

\* C5 witness: a step other than the first is running.
C5_Witness ==
  \E k \in DOMAIN executionSteps : k > 1 /\ executionSteps[k].status = "running"

\* C6: a failed step does not end the run: executeStep is called for the
\* indices 0, 1, 2, ... in order with none skipped, the loop is always at the
\* index after the last call, and a finished run has called it for all n.
C6_Continuation ==
  /\ \A j \in DOMAIN attempts : attempts[j].index = j - 1
  /\ pc = "loop" => i = Len(attempts)
  /\ RunFinished => Len(attempts) = Len(chain)

\* C6 witness: a finished run in which a step before the last one failed.
C6_Witness ==
  /\ RunFinished
  /\ \E j \in DOMAIN attempts :
       j < Len(attempts) /\ attempts[j].outcome \in FailedOutcomes

\* C7: the registered action of the step after a failed step is invoked with
\* null as its input.
C7_NullAfterFailure ==
  \A j \in DOMAIN attempts :
    (j > 1 /\ attempts[j - 1].outcome \in FailedOutcomes /\ attempts[j].action = "mock")
      => attempts[j].input = Null

\* C8: a finished run is published as success exactly when the number of
\* completed steps is n, and as partial exactly when that number is below n.
C8_Classification ==
  RunFinished
    => /\ executionResults.status = "success" <=> CompletedCount = Len(chain)
       /\ executionResults.status = "partial" <=> CompletedCount < Len(chain)

\* C8 witness: a finished run with some but not all steps completed.
C8_Witness ==
  /\ RunFinished
  /\ executionResults.status = "partial"
  /\ CompletedCount >= 1

\* C9: no outcome is ever error, and a run that has ended (its steps still
\* published) has outcome success or partial, whatever failed in it.
C9_NeverError ==
  /\ executionResults.status # "error"
  /\ (pc = "idle" /\ executionSteps # <<>>) => executionResults.status \in {"success", "partial"}

\* C9 witness: a finished run of several steps in which every step failed.
C9_Witness ==
  /\ RunFinished
  /\ Len(attempts) >= 2
  /\ \A j \in DOMAIN attempts : attempts[j].outcome \in FailedOutcomes
  /\ \E j \in DOMAIN attempts : attempts[j].outcome = "threw"

\* C10: once executeStep has found the entry of a step missing from the
\* catalog, the published step is failed and carries the not-found error.
C10_MissingEntryFails ==
  \A j \in DOMAIN attempts :
    (j = Len(attempts) /\ attempts[j].outcome = "notfound")
      => /\ executionSteps[j].status = "failed"
         /\ executionSteps[j].error = "Server not found"

-----------------------------------------------------------------------------
(* Vocabulary of the properties about start, reset and timing *)

\* The step from this state to the next is an executeChain call on an empty
\* chain: a call was made and no run loop was started
EmptyStartStep == starts' = starts + 1 /\ pc' = "idle"

\* The pre-run idle state as an observer sees it
IdleState ==
  /\ ~isExecuting
  /\ executionSteps = <<>>
  /\ currentStepIndex = -1
  /\ executionResults = NoResults

\* The durations recorded on the first k published steps, added up
RECURSIVE RecordedDuration(_)
RecordedDuration(k) ==
  IF k = 0 THEN 0
  ELSE RecordedDuration(k - 1)
       + (IF executionSteps[k].duration = NoNumber THEN 0 ELSE executionSteps[k].duration)

-----------------------------------------------------------------------------
(* Properties, continued *)

\* C11: in a finished run completedSteps is the number of steps whose action
\* returned, and every step whose action threw is published as failed with an
\* error.
C11_CompletedCountsReturns ==
  RunFinished
    => /\ executionResults.completedSteps
            = Cardinality({ j \in DOMAIN attempts : attempts[j].outcome = "returned" })
       /\ \A j \in DOMAIN attempts :
            attempts[j].outcome = "threw"
              => /\ executionSteps[j].status = "failed"
                 /\ executionSteps[j].error # Undefined

\* C12: in a finished run totalDuration is the sum of the durations recorded on
\* the published steps, a step without a duration counting zero.
C12_TotalIsSum ==
  RunFinished => executionResults.totalDuration = RecordedDuration(Len(executionSteps))

\* C12 witness: a finished run with a step that has a duration and one that has none.
C12_Witness ==
  /\ RunFinished
  /\ \E k \in DOMAIN executionSteps : executionSteps[k].duration # NoNumber
  /\ \E k \in DOMAIN executionSteps : executionSteps[k].duration = NoNumber

\* C13: an executeChain call on an empty chain creates and attempts nothing: the
\* steps are left as they are (empty stays empty), the running flag stays down
\* and the outcome on display is not touched.
C13_EmptyStartChangesNothing ==
  [][ EmptyStartStep =>
        /\ executionSteps' = executionSteps
        /\ attempts' = attempts
        /\ ~isExecuting'
        /\ currentStepIndex' = currentStepIndex
        /\ executionResults' = executionResults
    ]_vars

\* C13 witness: only empty chains were started so far, and nothing exists.
C13_Witness ==
  /\ warnings >= 1
  /\ starts = warnings
  /\ executionSteps = <<>>
  /\ ~isExecuting

\* C14 as stated: an executeChain call on an empty chain publishes an error outcome.
C14_EmptyStartIsError ==
  [][ EmptyStartStep => executionResults'.status = "error" ]_vars

\* C14 as amended: an executeChain call on an empty chain logs one console
\* warning and returns: it publishes no error outcome (the outcome is left as it
\* is) and records no step failure.
C14_EmptyStartWarnsOnce ==
  [][ EmptyStartStep =>
        /\ warnings' = warnings + 1
        /\ executionResults'.status # "error"
        /\ executionResults' = executionResults
        /\ \A k \in DOMAIN executionSteps' :
             executionSteps'[k].status = "failed" => executionSteps[k].status = "failed"
    ]_vars

\* C14 witness: an empty chain was started next to a run whose outcome is on display.
C14_Witness ==
  /\ warnings >= 1
  /\ RunFinished

\* C15: while a run is in flight no executeChain call is made: the run's chain
\* and steps are not initialised again, no second loop enters its initial wait
\* and nothing is warned about.
C15_NoStartWhileExecuting ==
  [][ isExecuting =>
        /\ starts' = starts
        /\ warnings' = warnings
        /\ chain' = chain
        /\ currentSteps' = currentSteps
        /\ pc' = "wait" => pc = "wait"
    ]_vars

\* C15 witness: a run is awaiting an action, another executeChain call is within
\* the bound, and the Execute button is disabled.
C15_Witness ==
  /\ isExecuting
  /\ pc = "await"
  /\ starts < MaxRuns
  /\ ~ExecuteEnabled

\* C16: a step that clears the steps of a finished run (resetExecution) leaves
\* the idle state: no steps, no current index, no outcome, flag down.
C16_ResetGivesIdle ==
  [][ (RunFinished /\ executionSteps' = <<>>) =>
        /\ currentStepIndex' = -1
        /\ executionResults' = NoResults
        /\ ~isExecuting'
        /\ pc' = "idle"
    ]_vars

\* C16 witness: a whole run was made and then reset.
C16_Witness ==
  /\ IdleState
  /\ pc = "idle"
  /\ chain # <<>>
  /\ Len(attempts) = Len(chain)

\* C17: resetExecution in the idle state changes nothing an observer sees, so a
\* second reset leaves what the first one left.
C17_ResetIdempotent ==
  [][ (IdleState /\ Reset) =>
        UNCHANGED <<isExecuting, executionSteps, currentStepIndex, executionResults>>
    ]_vars

\* C17 witness: the idle state after earlier activity, with Reset available.
C17_Witness ==
  /\ IdleState
  /\ ResetEnabled
  /\ starts >= 1

\* C18: a registered action is invoked with null at step 0 and, when the step
\* before it is published as completed, with that step's output.
C18_OutputThreading ==
  [][ (pc = "loop" /\ pc' = "await") =>
        LET a == attempts'[Len(attempts')]
        IN  a.action = "mock" =>
              /\ i = 0 => a.input = Null
              /\ (i > 0 /\ executionSteps[i].status = "completed")
                   => a.input = executionSteps[i].output
    ]_vars

\* C18 witness: a registered action was invoked after a step that returned, with
\* an input that is not null.
C18_Witness ==
  \E j \in DOMAIN attempts :
    /\ j > 1
    /\ attempts[j].action = "mock"
    /\ attempts[j - 1].outcome = "returned"
    /\ attempts[j].input = "generic-data"

\* C19: when a published step leaves running, its duration is the time of that
\* moment minus the startTime it was given when it entered running.
C19_DurationIsElapsed ==
  [][ \A k \in DOMAIN executionSteps :
        ( /\ k \in DOMAIN executionSteps'
          /\ executionSteps[k].status = "running"
          /\ executionSteps'[k].status \in Terminal )
        => executionSteps'[k].duration = now' - executionSteps[k].startTime
    ]_vars

\* C20: a running step is the step at currentStepIndex, and currentStepIndex is
\* -1 whenever no run is in flight.
C20_IndexFollowsRun ==
  /\ \A k \in DOMAIN executionSteps :
       executionSteps[k].status = "running" => currentStepIndex = k - 1
  /\ ~isExecuting => currentStepIndex = -1

\* C20 witness: a run has finished after its last step ran at an index above 0.
C20_Witness ==
  /\ RunFinished
  /\ Len(chain) >= 2
  /\ attempts[Len(attempts)].outcome = "returned"
  /\ currentStepIndex = -1

-----------------------------------------------------------------------------
(* Vocabulary of the properties about a run as a whole *)

\* The step from this state to the next is an executeChain call that started a run
RunStartStep == starts' = starts + 1 /\ pc' = "wait"

\* Published step k is running / has left running for completed or failed
IsRunning(k) == k \in DOMAIN executionSteps /\ executionSteps[k].status = "running"
IsTerminal(k) == k \in DOMAIN executionSteps /\ executionSteps[k].status \in Terminal

\* The log entries that invoked an action
Invocations == { j \in DOMAIN attempts : attempts[j].action # "none" }

-----------------------------------------------------------------------------
(* Properties, continued *)

\* C21: while a run is in flight no outcome is on display, not even one that an
\* earlier run left.
C21_NoOutcomeDuringRun ==
  (isExecuting \/ pc # "idle") => executionResults = NoResults

\* C21 witness: a second run is awaiting an action; the first one had finished.
C21_Witness ==
  /\ starts = 2
  /\ warnings = 0
  /\ pc = "await"

\* C22: while a run is in flight the published step list has one step per chain
\* entry, in the chain's order.
C22_StepsMatchChain ==
  isExecuting
    => /\ Len(executionSteps) = Len(chain)
       /\ \A k \in DOMAIN executionSteps : executionSteps[k].serverId = chain[k]

\* C22 witness: the second step of a chain of different entries has been run.
C22_Witness ==
  /\ isExecuting
  /\ pc = "delay"
  /\ i >= 1
  /\ chain[1] # chain[2]

\* C23: a published step has an output only when it is completed and an error
\* only when it is failed (so never both, and none while pending or running).
C23_OutputErrorMatchStatus ==
  \A k \in DOMAIN executionSteps :
    /\ executionSteps[k].output # Undefined => executionSteps[k].status = "completed"
    /\ executionSteps[k].error # Undefined => executionSteps[k].status = "failed"

\* C23 witness: a failed step with its error is on display after a completed one ran.
C23_Witness ==
  /\ \E k \in DOMAIN executionSteps :
       executionSteps[k].status = "failed" /\ executionSteps[k].error # Undefined
  /\ \E j \in DOMAIN attempts : attempts[j].outcome = "returned"

\* C24 as stated: the published steps have pairwise different ids, whatever the chain.
C24_StepIdsUnique ==
  \A j, k \in DOMAIN executionSteps :
    j # k => executionSteps[j].id # executionSteps[k].id

\* C24 as amended: two steps have the same id exactly when they are for the same
\* entry identifier, so the ids are unique for a chain of distinct entries.
C24_IdsUniqueForDistinctEntries ==
  \A j, k \in DOMAIN executionSteps :
    j # k => ( executionSteps[j].id = executionSteps[k].id
                 <=> executionSteps[j].serverId = executionSteps[k].serverId )

\* C24 witness: a run over a longest chain of pairwise different entries.
C24_Witness ==
  /\ isExecuting
  /\ Len(chain) >= 3
  /\ \A j, k \in DOMAIN chain : j # k => chain[j] # chain[k]

\* C25: under FairSpec a started run finishes (flag down, index -1, an outcome on
\* display), a running step becomes completed or failed, and a step leaves
\* running only for one of these two.
C25_RunsFinish ==
  /\ isExecuting ~>
       (~isExecuting /\ currentStepIndex = -1 /\ executionResults.status # Null)
  /\ \A k \in 1..MaxChain : IsRunning(k) ~> IsTerminal(k)
  /\ [][ \A k \in DOMAIN executionSteps :
           (IsRunning(k) /\ k \in DOMAIN executionSteps'
              /\ executionSteps'[k].status # "running")
           => executionSteps'[k].status \in Terminal ]_vars

\* C25 witness: a run over a longest chain has finished.
C25_Witness ==
  /\ RunFinished
  /\ Len(chain) = MaxChain
  /\ currentStepIndex = -1

\* C26: in a finished run every step whose entry is in the catalog without a
\* registered action is completed and has an output.
C26_GenericEndsCompleted ==
  RunFinished =>
    \A k \in DOMAIN chain :
      (\E s \in FindServer(chain[k]) : s.name \notin MockNames)
        => /\ executionSteps[k].status = "completed"
           /\ executionSteps[k].output # Undefined

\* C27: right after an executeChain call that started a run there is one
\* pending step per chain entry, without output, error, startTime or duration,
\* no current index and no outcome.
C27_StartIsFresh ==
  [][ RunStartStep =>
        /\ isExecuting'
        /\ Len(executionSteps') = Len(chain')
        /\ \A k \in DOMAIN executionSteps' :
             /\ executionSteps'[k].status = "pending"
             /\ executionSteps'[k].output = Undefined
             /\ executionSteps'[k].error = Undefined
             /\ executionSteps'[k].startTime = NoNumber
             /\ executionSteps'[k].duration = NoNumber
        /\ currentStepIndex' = -1
        /\ executionResults' = NoResults
    ]_vars

\* C27 witness: a second run has just been started.
C27_Witness ==
  /\ pc = "wait"
  /\ starts = 2
  /\ warnings = 0

\* C28: the actions are invoked in strictly increasing index order, and in a
\* finished run once for every entry that is in the catalog and not at all for
\* one that is not.
C28_NoRetries ==
  /\ \A j, k \in Invocations : j < k => attempts[j].index < attempts[k].index
  /\ RunFinished =>
       \A n \in DOMAIN chain :
         Cardinality({ j \in Invocations : attempts[j].index = n - 1 })
           = IF FindServer(chain[n]) # {} THEN 1 ELSE 0

\* C28 witness: a finished run in which an action threw and an entry was missing.
C28_Witness ==
  /\ RunFinished
  /\ \E j \in DOMAIN attempts : attempts[j].outcome = "threw"
  /\ \E j \in DOMAIN attempts : attempts[j].outcome = "notfound"

\* C29: onExecutionComplete is not called while the run is in flight, is called
\* once when it finishes, with the steps as published at the end, and is not
\* called by an executeChain call on an empty chain.
C29_CallbackOncePerRun ==
  /\ [] ( /\ pc # "idle" => callbacks = <<>>
          /\ Len(callbacks) <= 1
          /\ RunFinished => callbacks = << executionSteps >>
          /\ executionResults.status = "error" => callbacks = <<>> )
  /\ [][ EmptyStartStep => callbacks' = callbacks ]_vars
  /\ [][ callbacks' # callbacks =>
           \/ RunStartStep
           \/ Len(attempts) = Len(chain) /\ executionResults'.status \in {"success", "partial"}
       ]_vars

\* C29 witness: the callback was called for a run that published a completed step.
C29_Witness ==
  /\ RunFinished
  /\ Len(callbacks) = 1
  /\ CompletedCount >= 1
  /\ Len(chain) >= 2

\* C30: while a run is in flight the published steps are never cleared, and
\* the flag is lowered only together with the run's outcome being published.
C30_NoResetWhileExecuting ==
  [][ isExecuting =>
        /\ Len(executionSteps') = Len(executionSteps)
        /\ ~isExecuting' => (pc' = "idle" /\ executionResults'.status \in {"success", "partial"})
    ]_vars

\* C30 witness: a run is between two steps and the Reset button is disabled.
C30_Witness ==
  /\ isExecuting
  /\ pc = "delay"
  /\ ~ResetEnabled

====
